---- MODULE Spec2Model ----
(***************************************************************************)
(* Model of olsova/atc, package githubservice: the fetch orchestrator      *)
(* (fetch), the caption renderer (renderTagNameTemplate) and the two entry *)
(* points (PushAction, CIPushAction) of src/githubservice/ghpush.go.       *)
(*                                                                         *)
(* Texts whose characters matter (versions, captions, behavior values) are *)
(* sequences of one-character strings; a path is the sequence of its       *)
(* segments; a template is the sequence of the nodes text/template parses  *)
(* it into.                                                                *)
(***************************************************************************)
EXTENDS Integers, Sequences, FiniteSets, TLC

VARIABLES
    settings,     \* *AtcSettings: [Path, Behavior, Template, Branch]
    oldContent,   \* what a fetcher gets from ghOldContentProviderPtr, per file
    newContent,   \* what a fetcher gets from ghNewContentProviderPtr, per file
    fullname,     \* the repository's full name
    entry,        \* "idle", "fetch" (fetch called on its own), "webhook", "ci"
    fetchRes,     \* the results of the calls of fetch made so far
    atcErr,       \* the error getAtcSetting returned to PushAction ("nil" if none)
    tags,         \* the calls of addTagToCommit: [caption, sha]
    comments,     \* the calls of addComment: [sha, body]
    logs,         \* the log lines of the entry points
    ret           \* what the entry point returned

vars == <<settings, oldContent, newContent, fullname, entry, fetchRes, atcErr,
          tags, comments, logs, ret>>

(***************************************************************************)
(* Bounds of the model.                                                    *)
(***************************************************************************)
\* manifests (files readable or malformed at either reference) of a
\* repository fetch is called on directly
MaxManifests == 2
\* the same, for a repository an entry point runs on
MaxPushManifests == 1
\* calls of fetch on the same inputs
MaxRuns == 2

(***************************************************************************)
(* Texts.                                                                  *)
(***************************************************************************)
Range(s) == {s[i] : i \in DOMAIN s}

\* strings.Contains
Contains(s, sub) ==
    \E i \in 1..(Len(s) - Len(sub) + 1) : SubSeq(s, i, i + Len(sub) - 1) = sub

LowerOf ==
    [c \in {"A", "B", "E", "F", "O", "R", "T"} |->
        CASE c = "A" -> "a" [] c = "B" -> "b" [] c = "E" -> "e" [] c = "F" -> "f"
          [] c = "O" -> "o" [] c = "R" -> "r" [] c = "T" -> "t"]

\* strings.ToLower
ToLower(s) == [i \in DOMAIN s |-> IF s[i] \in DOMAIN LowerOf THEN LowerOf[s[i]] ELSE s[i]]

behaviorBefore == <<"b", "e", "f", "o", "r", "e">>
behaviorAfter == <<"a", "f", "t", "e", "r">>

Behaviors ==
    { <<>>, behaviorBefore, behaviorAfter,
      <<"B", "e", "f", "o", "r", "e">>, <<"A", "F", "T", "E", "R">>,
      <<"b", "e", "f">> }

Versions == { <<>>, <<"1", ".", "0">>, <<"1", ".", "1">> }

(***************************************************************************)
(* Templates: the nodes of a parsed text/template.  "text" is literal      *)
(* text, "field" is the action {{.name}}, "unclosed" is an action that is  *)
(* never closed, which Parse rejects.                                      *)
(***************************************************************************)
Text(chars) == [kind |-> "text", val |-> chars]
Field(name) == [kind |-> "field", val |-> name]
Unclosed == [kind |-> "unclosed", val |-> ""]

TplUpper == << Text(<<"v">>), Field("Version") >>                   \* v{{.Version}}
TplLower == << Text(<<"v">>), Field("version"), Text(<<"V">>) >>    \* v{{.version}}V
TplBroken == << Text(<<"v">>), Unclosed >>                          \* v{{.Version
Templates == {TplUpper, TplLower, TplBroken}

\* the exported fields of TagContent
TagContentFields == {"Version"}

\* tmpl.Execute: the output so far and the first error
RECURSIVE Execute(_, _, _)
Execute(nodes, version, buf) ==
    IF nodes = <<>> THEN [out |-> buf, err |-> "nil"]
    ELSE LET n == Head(nodes) IN
         IF n.kind = "text" THEN Execute(Tail(nodes), version, buf \o n.val)
         ELSE IF n.val \in TagContentFields
              THEN Execute(Tail(nodes), version, buf \o version)
              ELSE [out |-> buf, err |-> "errExec"]

renderTagNameTemplate(templateString, version) ==
    IF \E i \in DOMAIN templateString : templateString[i].kind = "unclosed"
    THEN [out |-> <<>>, err |-> "errParse"]
    ELSE LET r == Execute(templateString, version, <<>>) IN
         IF r.err # "nil" THEN [out |-> <<>>, err |-> r.err] ELSE r

\* the template rule of checkSettingsForErrors: the template holds {{.version}}
templateHasPlaceholder(templateString) ==
    \E i \in DOMAIN templateString : templateString[i] = Field("version")

(***************************************************************************)
(* Fetchers and content providers.                                         *)
(***************************************************************************)
autoFetchers ==
    [k \in {"pom.xml", "build.gradle", "package.json", "pubspec.yaml"} |->
        CASE k = "pom.xml" -> "pomXmlFetcher"
          [] k = "build.gradle" -> "buildGradleFetcher"
          [] k = "package.json" -> "packagejsonFetcher"
          [] k = "pubspec.yaml" -> "pubspecyamlFetcher"]

detectFetchType(path) == IF path = <<>> THEN "" ELSE path[Len(path)]

\* a fetcher's answer: the version and the error
Ok(v) == [ver |-> v, err |-> "nil"]
NotFound == [ver |-> <<>>, err |-> "errHttpStatusCode"]
ParseFailure == [ver |-> <<>>, err |-> "errParse"]

GetVersion(provider, s) == provider[s.Path]
GetVersionUsingDefaultPath(provider, defaultPath) == provider[<<defaultPath>>]

\* err != nil && !errors.Is(err, errHttpStatusCode)
OldErrIsFatalMutant(err) == err # "nil"
OldErrIsFatal(err) == err # "nil" /\ err # "errHttpStatusCode"

Call(f, side, err) == [fetcher |-> f, side |-> side, err |-> err]

\* the state of fetch: its variables, the fetcher it ended on and its calls.
\* fetched is the flag of the auto-detect loop; in explicit mode it records
\* that fetch got past both GetVersion calls
FetchState0 ==
    [oldVersion |-> <<>>, newVersion |-> <<>>, fetched |-> FALSE,
     fetcher |-> "", calls |-> <<>>, err |-> <<>>]

\* fetch, explicit mode
fetchExplicit(s, old, new, name) ==
    LET fetchType == detectFetchType(s.Path)
        fetcher == IF fetchType \in DOMAIN autoFetchers
                   THEN autoFetchers[fetchType] ELSE "customRegexFetcher"
        o == GetVersion(old, s)
        st1 == [FetchState0 EXCEPT !.oldVersion = o.ver, !.fetcher = fetcher,
                                   !.calls = <<Call(fetcher, "old", o.err)>>]
    IN  IF OldErrIsFatal(o.err)
        THEN [st1 EXCEPT !.err = <<"get prev version error for", name, o.err>>]
        ELSE LET n == GetVersion(new, s)
                 st2 == [st1 EXCEPT !.newVersion = n.ver,
                                    !.calls = Append(@, Call(fetcher, "new", n.err))]
             IN  IF n.err # "nil"
                 THEN [st2 EXCEPT !.err = <<"get new version error for", name, n.err>>]
                 ELSE [st2 EXCEPT !.fetched = TRUE]

\* the body of the loop over autoFetchers, for the keys in the order the
\* range statement produced them
RECURSIVE rangeAutoFetchersMutantStop(_, _, _, _)
rangeAutoFetchersMutantStop(order, old, new, st) ==
    IF order = <<>> THEN st
    ELSE LET defaultPath == Head(order)
             fetcher == autoFetchers[defaultPath]
             o == GetVersionUsingDefaultPath(old, defaultPath)
             st1 == [st EXCEPT !.oldVersion = o.ver, !.fetcher = fetcher,
                               !.calls = Append(@, Call(fetcher, "old", o.err))]
         IN  IF OldErrIsFatal(o.err)
             THEN st1
             ELSE LET n == GetVersionUsingDefaultPath(new, defaultPath)
                      st2 == [st1 EXCEPT !.newVersion = n.ver,
                                         !.calls = Append(@, Call(fetcher, "new", n.err))]
                  IN  IF n.err = "nil"
                      THEN [st2 EXCEPT !.fetched = TRUE]
                      ELSE st2

RECURSIVE rangeAutoFetchersMutantNoBreak(_, _, _, _)
rangeAutoFetchersMutantNoBreak(order, old, new, st) ==
    IF order = <<>> THEN st
    ELSE LET defaultPath == Head(order)
             fetcher == autoFetchers[defaultPath]
             o == GetVersionUsingDefaultPath(old, defaultPath)
             st1 == [st EXCEPT !.oldVersion = o.ver, !.fetcher = fetcher,
                               !.calls = Append(@, Call(fetcher, "old", o.err))]
         IN  IF OldErrIsFatal(o.err)
             THEN rangeAutoFetchersMutantNoBreak(Tail(order), old, new, st1)
             ELSE LET n == GetVersionUsingDefaultPath(new, defaultPath)
                      st2 == [st1 EXCEPT !.newVersion = n.ver,
                                         !.calls = Append(@, Call(fetcher, "new", n.err))]
                  IN  IF n.err = "nil"
                      THEN rangeAutoFetchersMutantNoBreak(Tail(order), old, new,
                                                          [st2 EXCEPT !.fetched = TRUE])
                      ELSE rangeAutoFetchersMutantNoBreak(Tail(order), old, new, st2)

RECURSIVE rangeAutoFetchers(_, _, _, _)
rangeAutoFetchers(order, old, new, st) ==
    IF order = <<>> THEN st
    ELSE LET defaultPath == Head(order)
             fetcher == autoFetchers[defaultPath]
             o == GetVersionUsingDefaultPath(old, defaultPath)
             st1 == [st EXCEPT !.oldVersion = o.ver, !.fetcher = fetcher,
                               !.calls = Append(@, Call(fetcher, "old", o.err))]
         IN  IF OldErrIsFatal(o.err)
             THEN rangeAutoFetchers(Tail(order), old, new, st1)
             ELSE LET n == GetVersionUsingDefaultPath(new, defaultPath)
                      st2 == [st1 EXCEPT !.newVersion = n.ver,
                                         !.calls = Append(@, Call(fetcher, "new", n.err))]
                  IN  IF n.err = "nil"
                      THEN [st2 EXCEPT !.fetched = TRUE]
                      ELSE rangeAutoFetchers(Tail(order), old, new, st2)

\* fetch, auto-detect mode
fetchAuto(order, old, new) ==
    LET st == rangeAutoFetchers(order, old, new, FetchState0) IN
    IF ~st.fetched
    THEN [st EXCEPT !.err = <<"unable to fetch version using known methods">>]
    ELSE st

\* if newVersion != oldVersion
versionChangedMutant(oldVersion, newVersion) == TRUE
versionChanged(oldVersion, newVersion) == newVersion # oldVersion

\* fetch: the caption and the error it returns, with what it did on the way
fetch(s, old, new, name, order) ==
    LET st == IF detectFetchType(s.Path) # ""
              THEN fetchExplicit(s, old, new, name)
              ELSE fetchAuto(order, old, new)
        res == [caption |-> <<>>, err |-> st.err, rendered |-> FALSE,
                fetched |-> st.fetched, oldVersion |-> st.oldVersion,
                newVersion |-> st.newVersion, fetcher |-> st.fetcher,
                calls |-> st.calls]
    IN  IF st.err # <<>> THEN res
        ELSE IF versionChanged(st.oldVersion, st.newVersion)
             THEN LET r == renderTagNameTemplate(s.Template, st.newVersion) IN
                  IF r.err # "nil"
                  THEN [res EXCEPT !.rendered = TRUE,
                                   !.err = <<"error in go templates:", r.err>>]
                  ELSE [res EXCEPT !.rendered = TRUE, !.caption = r.out]
             ELSE res

\* the orders in which a range statement can produce the keys of autoFetchers
RangeOrders ==
    {o \in [1..Cardinality(DOMAIN autoFetchers) -> DOMAIN autoFetchers] :
        \A i, j \in DOMAIN o : i # j => o[i] # o[j]}

(***************************************************************************)
(* Inputs.                                                                 *)
(***************************************************************************)
Paths == { <<>>, <<"pom.xml">>, <<"app", "package.json">>, <<"conf", "VERSION">> }

OldAnswers == {Ok(<<"1", ".", "0">>), NotFound, ParseFailure}
NewAnswers == {Ok(v) : v \in Versions} \cup {NotFound, ParseFailure}

\* the files fetch can read under a path setting
FilesRead(path) ==
    IF path = <<>> THEN {<<k>> : k \in DOMAIN autoFetchers} ELSE {path}

Manifests(old, new) == {f \in DOMAIN old : old[f] # NotFound \/ new[f] # NotFound}

InitInputs(paths, behaviors, branches, max) ==
    /\ settings \in [Path : paths, Behavior : behaviors, Template : Templates,
                     Branch : branches]
    /\ oldContent \in [FilesRead(settings.Path) -> OldAnswers]
    /\ newContent \in [FilesRead(settings.Path) -> NewAnswers]
    /\ Cardinality(Manifests(oldContent, newContent)) <= max
    /\ fullname = "octo/app"
    /\ fetchRes = <<>>
    /\ atcErr = "nil"
    /\ tags = <<>>
    /\ comments = <<>>
    /\ logs = <<>>
    /\ ret = "none"

(***************************************************************************)
(* fetch called on its own, on the same inputs each time.                  *)
(***************************************************************************)
InitFetch ==
    /\ InitInputs(Paths, {<<>>}, {""}, MaxManifests)
    /\ entry = "fetch"

CallFetch ==
    /\ entry = "fetch"
    /\ fetchRes = <<>>
    /\ \E order \in RangeOrders :
          fetchRes' = <<fetch(settings, oldContent, newContent, fullname, order)>>
    /\ UNCHANGED <<settings, oldContent, newContent, fullname, entry, atcErr,
                   tags, comments, logs, ret>>

\* a later call, the inputs unchanged
CallFetchAgain ==
    /\ entry = "fetch"
    /\ fetchRes # <<>>
    /\ Len(fetchRes) < MaxRuns
    /\ \E order \in RangeOrders :
          fetchRes' = Append(fetchRes,
                             fetch(settings, oldContent, newContent, fullname, order))
    /\ UNCHANGED <<settings, oldContent, newContent, fullname, entry, atcErr,
                   tags, comments, logs, ret>>

NextFetch == CallFetch

SpecFetch == InitFetch /\ [][NextFetch]_vars

NextAgain == CallFetch \/ CallFetchAgain

SpecAgain == InitFetch /\ [][NextAgain]_vars

(***************************************************************************)
(* The entry points.                                                       *)
(***************************************************************************)
shaBefore == "sha0"     \* push.Before, parents[0].SHA
shaAfter == "sha1"      \* push.After, COMMIT_SHA
defaultBranch == "main"
PushRefs == { <<"refs/heads/", "main">>, <<"refs/heads/", "dev">> }

getShaByBehavior(behavior) ==
    IF ToLower(behavior) = behaviorBefore THEN shaBefore ELSE shaAfter

createBranchToClientProvider(s) ==
    IF s.Branch # "" THEN s.Branch ELSE defaultBranch

\* the sha CIPushAction tags
ciSha(behavior) == IF behavior = behaviorAfter THEN shaAfter ELSE shaBefore

Init ==
    /\ InitInputs(Paths, Behaviors, {"", "dev"}, MaxPushManifests)
    /\ entry = "idle"

\* PushAction from fetch on: the tag and the comment
pushTagging(order, tagErr) ==
    LET res == fetch(settings, oldContent, newContent, fullname, order)
        sha == getShaByBehavior(settings.Behavior)
        tag == [caption |-> res.caption, sha |-> sha]
    IN  /\ fetchRes' = <<res>>
        /\ UNCHANGED atcErr
        /\ IF res.err # <<>>
           THEN /\ logs' = <<"fetch version error">>
                /\ UNCHANGED <<tags, comments>>
           ELSE /\ tags' = <<tag>>
                /\ IF tagErr # "nil"
                   THEN /\ logs' = <<"addTagToCommit Error">>
                        /\ comments' =
                             <<[sha |-> sha,
                                body |-> <<"can't add tag to commit", tagErr>>]>>
                   ELSE /\ comments' =
                             <<[sha |-> sha,
                                body |-> <<"Added a new version", fullname,
                                           res.caption>>]>>
                        /\ UNCHANGED logs

PushAction ==
    /\ entry = "idle"
    /\ entry' = "webhook"
    /\ ret' = "void"
    /\ \E tokenErr \in {"nil", "errNoPemEnv"} :
        IF tokenErr # "nil"
        THEN /\ logs' = <<"getAccessToken Error">>
             /\ UNCHANGED <<atcErr, fetchRes, tags, comments>>
        ELSE \E settingErr \in {"nil", "errGeneral"} :
            IF settingErr # "nil"
            THEN /\ atcErr' = settingErr
                 /\ logs' = <<"err. send user: ">>
                 /\ comments' = <<[sha |-> shaAfter, body |-> <<settingErr>>]>>
                 /\ UNCHANGED <<fetchRes, tags>>
            ELSE \E ref \in PushRefs :
                IF ref # <<"refs/heads/", createBranchToClientProvider(settings)>>
                THEN UNCHANGED <<atcErr, fetchRes, tags, comments, logs>>
                ELSE \E order \in RangeOrders, tagErr \in {"nil", "errTag"} :
                        pushTagging(order, tagErr)
    /\ UNCHANGED <<settings, oldContent, newContent, fullname>>

\* CIPushAction from fetch on: the tag and the log line
ciTagging(order, tagErr) ==
    LET s == [Path |-> settings.Path, Behavior |-> settings.Behavior,
              Template |-> settings.Template, Branch |-> ""]
        res == fetch(s, oldContent, newContent, fullname, order)
        tag == [caption |-> res.caption, sha |-> ciSha(s.Behavior)]
    IN  /\ fetchRes' = <<res>>
        /\ IF res.err # <<>>
           THEN /\ ret' = <<"fetch version error", res.err>>
                /\ UNCHANGED <<tags, logs>>
           ELSE /\ tags' = <<tag>>
                /\ IF tagErr # "nil"
                   THEN /\ ret' = <<"error when adding tag to commit",
                                    fullname, tagErr>>
                        /\ UNCHANGED logs
                   ELSE /\ ret' = "nil"
                        /\ logs' = <<"Added a new version">>

CIPushAction ==
    /\ entry = "idle"
    /\ entry' = "ci"
    /\ \E commit \in {"errGetCommit", "noParents", "hasParent"} :
        IF commit = "errGetCommit"
        THEN /\ ret' = <<"error getting commit", shaAfter>>
             /\ UNCHANGED <<fetchRes, tags, logs>>
        ELSE IF commit = "noParents"
        THEN /\ ret' = "nil"
             /\ logs' = <<"this branch has no older commits">>
             /\ UNCHANGED <<fetchRes, tags>>
        ELSE \E order \in RangeOrders, tagErr \in {"nil", "errTag"} :
                ciTagging(order, tagErr)
    /\ UNCHANGED <<settings, oldContent, newContent, fullname, atcErr, comments>>

Next == PushAction \/ CIPushAction

Spec == Init /\ [][Next]_vars

(***************************************************************************)
(* Properties.                                                             *)
(***************************************************************************)
Results == Range(fetchRes)
AutoDetect == settings.Path = <<>>
Unable == <<"unable to fetch version using known methods">>
IsTemplateErr(err) == err # <<>> /\ err[1] = "error in go templates:"
AddedComment(c) == c.body[1] = "Added a new version"

\* C1: in both entry points, when fetch returns the empty caption with no
\* error, no tag is created and no 'Added a new version' comment or log line
\* is produced.
C1_TagOnlyIfChanged ==
    \A r \in Results :
        (entry \in {"webhook", "ci"} /\ r.err = <<>> /\ r.caption = <<>>)
            => /\ tags = <<>>
               /\ \A i \in DOMAIN comments : ~AddedComment(comments[i])
               /\ "Added a new version" \notin Range(logs)

\* C2: a not-found error from the old provider alone never makes fetch return
\* an error: the old version is taken as empty and the new provider is still
\* queried.  A not-found error from the new provider makes fetch return the
\* new-version error in explicit mode; in auto-detect mode it disqualifies
\* that fetcher only, and the iteration goes on with the fetchers left.
C2_NotFoundOldToleratedNewFatal ==
    \A r \in Results :
        /\ \A i \in DOMAIN r.calls :
              (r.calls[i].side = "old" /\ r.calls[i].err = "errHttpStatusCode")
                  => /\ i < Len(r.calls)
                     /\ r.calls[i + 1].fetcher = r.calls[i].fetcher
                     /\ r.calls[i + 1].side = "new"
                     /\ (r.calls[i + 1].err = "nil"
                            => /\ i + 1 = Len(r.calls)
                               /\ r.fetched
                               /\ r.oldVersion = <<>>
                               /\ (r.err = <<>> \/ IsTemplateErr(r.err)))
        /\ \A i \in DOMAIN r.calls :
              (r.calls[i].side = "new" /\ r.calls[i].err = "errHttpStatusCode")
                  => IF ~AutoDetect
                     THEN r.err = <<"get new version error for", fullname,
                                    "errHttpStatusCode">>
                     ELSE IF i = Len(r.calls)
                     THEN /\ r.err = Unable
                          /\ {c.fetcher : c \in Range(r.calls)} =
                                 Range(autoFetchers)
                     ELSE /\ r.calls[i + 1].side = "old"
                          /\ \A j \in 1..i :
                                r.calls[j].fetcher # r.calls[i + 1].fetcher

\* C2 happens: in auto-detect mode one fetcher's new call failed with
\* not-found, and a later fetcher whose old call failed with not-found won
C2_Witness ==
    \E r \in Results :
        /\ AutoDetect
        /\ r.fetched
        /\ \E i, j \in DOMAIN r.calls :
              /\ i < j
              /\ r.calls[i].side = "new" /\ r.calls[i].err = "errHttpStatusCode"
              /\ r.calls[j].side = "old" /\ r.calls[j].err = "errHttpStatusCode"

\* a registered fetcher reads a version from the new provider
NewReadable(k) == newContent[<<k>>].err = "nil"
\* ... and its read of the old provider succeeds or fails with not-found
Qualifies(k) ==
    /\ oldContent[<<k>>].err \in {"nil", "errHttpStatusCode"}
    /\ newContent[<<k>>].err = "nil"

\* C3, as claimed: in auto-detect mode fetch returns the 'no supported format'
\* error only if reading the new provider fails for every registered fetcher.
C3_Original ==
    \A r \in Results :
        (AutoDetect /\ r.err = Unable)
            => \A k \in DOMAIN autoFetchers : ~NewReadable(k)

\* C3, amended: in auto-detect mode fetch returns the 'no supported format'
\* error exactly when every registered fetcher either fails on the old
\* provider with an error other than not-found or fails on the new provider.
C3_UnableIffNoneQualifies ==
    \A r \in Results :
        AutoDetect
            => /\ (r.err = Unable) <=> (\A k \in DOMAIN autoFetchers : ~Qualifies(k))
               /\ (r.err # Unable) => r.fetched

\* C3 happens: one fetcher failed to parse the old manifest, another failed
\* on the new provider, and a third was adopted
C3_Witness ==
    \E r \in Results :
        /\ AutoDetect
        /\ r.fetched
        /\ \E i, j \in DOMAIN r.calls :
              /\ r.calls[i].side = "old" /\ r.calls[i].err = "errParse"
              /\ r.calls[j].side = "new" /\ r.calls[j].err # "nil"

\* C4: two calls of fetch with the same settings and the same provider
\* contents return the same caption and the same error outcome (which they
\* do if they select the same fetcher).
C4_Deterministic ==
    \A i, j \in DOMAIN fetchRes :
        /\ fetchRes[i].caption = fetchRes[j].caption
        /\ fetchRes[i].err = fetchRes[j].err

\* C5: whenever the adopted old and new versions are equal, fetch returns the
\* empty caption and no error, in both modes, and does not render the template.
C5_UnchangedIsEmpty ==
    \A r \in Results :
        (r.fetched /\ r.oldVersion = r.newVersion)
            => r.caption = <<>> /\ r.err = <<>> /\ ~r.rendered

\* C5 happens: the old file is not found, the new manifest holds no version,
\* and the template is one Parse rejects
C5_Witness ==
    \E r \in Results :
        /\ r.fetched
        /\ r.oldVersion = <<>> /\ r.newVersion = <<>>
        /\ r.calls[Len(r.calls) - 1].err = "errHttpStatusCode"
        /\ settings.Template = TplBroken

\* C6: whenever the adopted versions differ and the template holds the
\* placeholder settings validation requires, fetch returns no error and a
\* caption that contains the new version.
C6_CaptionHasVersion ==
    \A r \in Results :
        (r.fetched /\ r.oldVersion # r.newVersion
            /\ templateHasPlaceholder(settings.Template))
            => r.err = <<>> /\ Contains(r.caption, r.newVersion)

\* C7: when getAtcSetting returns an error, PushAction goes on to call fetch
\* in auto-detect mode.
C7_ConfigErrorFallsBack ==
    (entry = "webhook" /\ atcErr # "nil") => Len(fetchRes) = 1

\* C8: every error fetch returns names the repository (fullname).
C8_ErrorsNameRepository ==
    \A r \in Results : r.err # <<>> => fullname \in Range(r.err)

\* C9: a fetcher is called at most once against each provider; its old call
\* comes right before its new call, which is made only if the old call
\* succeeded or failed with not-found; explicit mode uses one fetcher; in
\* auto-detect mode nothing is called after a new call that succeeded.
C9_CallOrder ==
    \A r \in Results :
        /\ \A i, j \in DOMAIN r.calls :
              (i # j /\ r.calls[i].fetcher = r.calls[j].fetcher)
                  => r.calls[i].side # r.calls[j].side
        /\ r.calls # <<>> /\ r.calls[1].side = "old"
        /\ \A j \in DOMAIN r.calls :
              r.calls[j].side = "new"
                  => /\ j > 1
                     /\ r.calls[j - 1].fetcher = r.calls[j].fetcher
                     /\ r.calls[j - 1].side = "old"
                     /\ r.calls[j - 1].err \in {"nil", "errHttpStatusCode"}
        /\ \A i \in DOMAIN r.calls :
              (r.calls[i].side = "old"
                  /\ r.calls[i].err \in {"nil", "errHttpStatusCode"})
                  => i < Len(r.calls) /\ r.calls[i + 1].side = "new"
        /\ ~AutoDetect => Cardinality({c.fetcher : c \in Range(r.calls)}) = 1
        /\ \A i \in DOMAIN r.calls :
              (r.calls[i].side = "new" /\ r.calls[i].err = "nil")
                  => i = Len(r.calls)

\* C9 happens: in auto-detect mode a fetcher was adopted after two others
\* had been tried, with fetchers left untried
C9_Witness ==
    \E r \in Results :
        /\ AutoDetect
        /\ r.fetched
        /\ Len(r.calls) >= 4
        /\ Cardinality({c.fetcher : c \in Range(r.calls)}) <
               Cardinality(DOMAIN autoFetchers)

\* C10: in both entry points the tag's SHA is the prior reference's exactly
\* when behavior, compared case-insensitively, is 'before', and the new
\* reference's otherwise.
C10_SameTagTarget ==
    \A i \in DOMAIN tags :
        tags[i].sha = IF ToLower(settings.Behavior) = behaviorBefore
                      THEN shaBefore ELSE shaAfter

====
